---------------------------- MODULE Spec2Model ----------------------------
(***************************************************************************)
(* A model of src/src/App.jsx (LifeTime, "your life in weeks").            *)
(*                                                                         *)
(* Spec      one StatCard with the AnimatedNumber it renders: observers,   *)
(*           the reveal timer, the requestAnimationFrame chain, mounting,  *)
(*           unmounting and prop changes.                                  *)
(* LiveSpec  Spec with fair delivery of frames and advancing time.         *)
(* SpecCards two StatCards with fixed delays, as VisualizationScreen       *)
(*           configures them.                                              *)
(* SpecBoth  one StatCard whose card observer and counter observer both    *)
(*           deliver entries.                                              *)
(* SpecStats calculateLifeStats applied to an input string at an instant.  *)
(* SpecGrid  one LifeGrid: its units, its mount effect, the reveal wave.   *)
(* LiveGrid  SpecGrid with the effect run and time advancing.              *)
(* SpecApp   the App's screens: submitting a date and going back.          *)
(*                                                                         *)
(* Time is in milliseconds.  The host (browser, React) is modelled by its  *)
(* documented behaviour: IntersectionObserver delivers entries only while  *)
(* it observes, requestAnimationFrame runs the queued callbacks in order   *)
(* with one timestamp, setTimeout never fires early, a state update on an  *)
(* unmounted component changes nothing.                                    *)
(***************************************************************************)
EXTENDS Integers, Sequences, FiniteSets

\* ------------------------------------------------------------ bounds
MaxTime == 2000
MaxTimerTime == 500
MaxChains == 2
MaxTimers == 2
MaxGridTime == 1500
HighValue == 5

\* ------------------------------------------------- program constants
WEEKS_IN_YEAR == 52
TOTAL_YEARS == 90
TOTAL_WEEKS == TOTAL_YEARS * WEEKS_IN_YEAR

Duration == 1500

Cards == {"A", "B"}
SoloCards == {"A"}
Delays == {100, 200}
Values == {0, 2, HighValue}
FrameSteps == {500, 1000}
TimerSteps == {100}
GridSteps == {250}
GridWeeks == {0, 1, 520, TOTAL_WEEKS - 1, TOTAL_WEEKS, 4957}

VARIABLES
    now,           \* performance.now() / the timer clock, ms
    hasIO,         \* the host defines IntersectionObserver
    crashed,       \* an effect threw: React has removed the tree
    mounted,       \* [card -> BOOLEAN] the StatCard (and its AnimatedNumber) is mounted
    delay,         \* [card -> ms] StatCard's delay prop
    value,         \* [card -> Nat] StatCard's value prop, passed to AnimatedNumber
    isRendered,    \* [card -> BOOLEAN] StatCard's isRendered state
    displayValue,  \* [card -> Nat] AnimatedNumber's displayValue state
    cardObs,       \* [card -> observer] StatCard's IntersectionObserver
    numObs,        \* [card -> observer] AnimatedNumber's IntersectionObserver
    timers,        \* pending setTimeout callbacks, in the order they were set
    rafQueue,      \* pending requestAnimationFrame callbacks, in the order they were requested
    frameLog,      \* what the last step's animate calls did (history)
    timerLog,      \* what the last step's timer callback did (history)
    timersSet,     \* [card -> Nat] timers set by the StatCard's current observer (history)
    animsStarted,  \* [card -> Nat] animations started by the AnimatedNumber's current observer (history)
    crossOrder,    \* cards in the order their current observer first reported them visible (history)
    birthDateStr,  \* calculateLifeStats' argument, a string as its sequence of characters
    clock,         \* the instant `new Date()` reads inside calculateLifeStats
    tzOffset,      \* the host's local time minus UTC, ms
    rollsOver,     \* the host's Date parser accepts a day past the month's end (as V8 does)
    stats,         \* what calculateLifeStats returned, Pending before the call
    gridMounted,   \* a LifeGrid is mounted
    gridWeeksLived,\* LifeGrid's weeksLived prop
    gridIsRendered,\* LifeGrid's isRendered state
    gridEffect,    \* LifeGrid's mount effect is scheduled and has not run
    grid,          \* [0..TOTAL_WEEKS-1 -> unit] the memoized array of unit elements
    revealAt,      \* when the host started the units' transitions; -1: at no time
    shown,         \* [0..TOTAL_WEEKS-1 -> BOOLEAN] the host has begun to show the unit
    appBirthDate   \* App's birthDate state: JsNull or the submitted string

uiVars == <<now, hasIO, crashed, mounted, delay, value, isRendered, displayValue,
            cardObs, numObs, timers, rafQueue, frameLog, timerLog, timersSet,
            animsStarted, crossOrder>>

statsVars == <<birthDateStr, clock, tzOffset, rollsOver, stats>>

gridVars == <<gridMounted, gridWeeksLived, gridIsRendered, gridEffect, grid,
              revealAt, shown>>

appVars == <<appBirthDate>>

\* An observer: whether it observes its element, and the last entry it was
\* handed ("none" before the first, "in" isIntersecting, "out" not).
NoObserver == [observing |-> FALSE, last |-> "none"]
NewObserver == [observing |-> TRUE, last |-> "none"]

Entry(b) == IF b THEN "in" ELSE "out"

\* Sequence helpers
RemoveAt(s, i) == SubSeq(s, 1, i - 1) \o SubSeq(s, i + 1, Len(s))

Without(s, c) == SelectSeq(s, LAMBDA x : x # c)

\* The closures of card c's torn-down effect stay queued: cleanup only
\* disconnects the observer.  torn: the effect that created the callback has
\* been cleaned up.  dead: the instance whose state it sets is unmounted.
TearDown(q, c, unmount) ==
    [i \in DOMAIN q |->
        IF q[i].card = c
        THEN [q[i] EXCEPT !.torn = TRUE, !.dead = @ \/ unmount]
        ELSE q[i]]


\* ------------------------------------------------------------ the host
UIInit ==
    /\ now = 0
    /\ hasIO \in BOOLEAN
    /\ crashed = FALSE
    /\ mounted = [c \in Cards |-> FALSE]
    /\ delay = [c \in Cards |-> 100]
    /\ value = [c \in Cards |-> 0]
    /\ isRendered = [c \in Cards |-> FALSE]
    /\ displayValue = [c \in Cards |-> 0]
    /\ cardObs = [c \in Cards |-> NoObserver]
    /\ numObs = [c \in Cards |-> NoObserver]
    /\ timers = <<>>
    /\ rafQueue = <<>>
    /\ frameLog = <<>>
    /\ timerLog = <<>>
    /\ timersSet = [c \in Cards |-> 0]
    /\ animsStarted = [c \in Cards |-> 0]
    /\ crossOrder = <<>>

\* Time passes (the model stops the clock at limit).
Tick(d, limit) ==
    /\ now + d <= limit
    /\ now' = now + d
    /\ frameLog' = <<>>
    /\ timerLog' = <<>>
    /\ UNCHANGED <<hasIO, crashed, mounted, delay, value, isRendered, displayValue,
                   cardObs, numObs, timers, rafQueue, timersSet, animsStarted,
                   crossOrder>>
    /\ UNCHANGED <<statsVars, gridVars, appVars>>

\* ------------------------------------------------------------ mounting
\* React mounts <StatCard value delay/>: useState initial values, then the
\* effects, the child's (AnimatedNumber) first.  Where the host has no
\* IntersectionObserver, `new IntersectionObserver` throws a ReferenceError
\* out of the effect and React removes the tree.
Mount(c, v, d) ==
    /\ ~crashed
    /\ ~mounted[c]
    /\ frameLog' = <<>>
    /\ timerLog' = <<>>
    /\ IF hasIO
       THEN /\ mounted' = [mounted EXCEPT ![c] = TRUE]
            /\ value' = [value EXCEPT ![c] = v]
            /\ delay' = [delay EXCEPT ![c] = d]
            /\ isRendered' = [isRendered EXCEPT ![c] = FALSE]
            /\ displayValue' = [displayValue EXCEPT ![c] = 0]
            /\ numObs' = [numObs EXCEPT ![c] = NewObserver]
            /\ cardObs' = [cardObs EXCEPT ![c] = NewObserver]
            /\ timersSet' = [timersSet EXCEPT ![c] = 0]
            /\ animsStarted' = [animsStarted EXCEPT ![c] = 0]
            /\ UNCHANGED crashed
       ELSE /\ crashed' = TRUE
            /\ UNCHANGED <<mounted, value, delay, isRendered, displayValue, numObs,
                           cardObs, timersSet, animsStarted>>
    /\ UNCHANGED <<now, hasIO, timers, rafQueue, crossOrder>>
    /\ UNCHANGED <<statsVars, gridVars, appVars>>

\* React unmounts the StatCard: both effects' cleanups run, each only
\* `observer.disconnect()`.  The instance's state and props are gone (the
\* model puts them back to their initial values).
Unmount(c) ==
    /\ mounted[c]
    /\ mounted' = [mounted EXCEPT ![c] = FALSE]
    /\ cardObs' = [cardObs EXCEPT ![c] = NoObserver]
    /\ numObs' = [numObs EXCEPT ![c] = NoObserver]
    /\ timers' = TearDown(timers, c, TRUE)
    /\ rafQueue' = TearDown(rafQueue, c, TRUE)
    /\ crossOrder' = Without(crossOrder, c)
    /\ isRendered' = [isRendered EXCEPT ![c] = FALSE]
    /\ displayValue' = [displayValue EXCEPT ![c] = 0]
    /\ value' = [value EXCEPT ![c] = 0]
    /\ delay' = [delay EXCEPT ![c] = 100]
    /\ timersSet' = [timersSet EXCEPT ![c] = 0]
    /\ animsStarted' = [animsStarted EXCEPT ![c] = 0]
    /\ frameLog' = <<>>
    /\ timerLog' = <<>>
    /\ UNCHANGED <<now, hasIO, crashed>>
    /\ UNCHANGED <<statsVars, gridVars, appVars>>

\* The value prop changes: AnimatedNumber's effect ([value]) is cleaned up
\* and runs again with a new observer; displayValue is kept.
SetValue(c, v) ==
    /\ mounted[c]
    /\ v # value[c]
    /\ value' = [value EXCEPT ![c] = v]
    /\ numObs' = [numObs EXCEPT ![c] = NewObserver]
    /\ rafQueue' = TearDown(rafQueue, c, FALSE)
    /\ animsStarted' = [animsStarted EXCEPT ![c] = 0]
    /\ frameLog' = <<>>
    /\ timerLog' = <<>>
    /\ UNCHANGED <<now, hasIO, crashed, mounted, delay, isRendered, displayValue,
                   cardObs, timers, timersSet, crossOrder>>
    /\ UNCHANGED <<statsVars, gridVars, appVars>>

\* The delay prop changes: StatCard's effect ([delay]) is cleaned up and
\* runs again with a new observer; isRendered is kept.
SetDelay(c, d) ==
    /\ mounted[c]
    /\ d # delay[c]
    /\ delay' = [delay EXCEPT ![c] = d]
    /\ cardObs' = [cardObs EXCEPT ![c] = NewObserver]
    /\ timers' = TearDown(timers, c, FALSE)
    /\ timersSet' = [timersSet EXCEPT ![c] = 0]
    /\ crossOrder' = Without(crossOrder, c)
    /\ frameLog' = <<>>
    /\ timerLog' = <<>>
    /\ UNCHANGED <<now, hasIO, crashed, mounted, value, isRendered, displayValue,
                   numObs, rafQueue, animsStarted>>
    /\ UNCHANGED <<statsVars, gridVars, appVars>>


\* ------------------------------------------------------------ StatCard
\* setTimeout(callback, delay): the timer StatCard's observer callback sets.
NewTimerReversed(c) ==
    [card |-> c, due |-> now + (300 - delay[c]), delay |-> 300 - delay[c],
     torn |-> FALSE, dead |-> FALSE]

NewTimer(c) ==
    [card |-> c, due |-> now + delay[c], delay |-> delay[c],
     torn |-> FALSE, dead |-> FALSE]

\* StatCard's observer callback, handed an entry with isIntersecting = b.
\* The observer reports a change of visibility, so two entries in a row
\* differ; the first entry of a new observer reports the current state.
\* The model sets a timer only while the timer list has room.
IntersectCard(c, b) ==
    /\ mounted[c]
    /\ cardObs[c].observing
    /\ cardObs[c].last # Entry(b)
    /\ cardObs' = [cardObs EXCEPT ![c].last = Entry(b)]
    /\ IF b
       THEN /\ Len(timers) < MaxTimers
            /\ timers' = Append(timers, NewTimer(c))
            /\ timersSet' = [timersSet EXCEPT ![c] = @ + 1]
            /\ crossOrder' = IF \E i \in DOMAIN crossOrder : crossOrder[i] = c
                             THEN crossOrder ELSE Append(crossOrder, c)
       ELSE UNCHANGED <<timers, timersSet, crossOrder>>
    /\ frameLog' = <<>>
    /\ timerLog' = <<>>
    /\ UNCHANGED <<now, hasIO, crashed, mounted, delay, value, isRendered,
                   displayValue, numObs, rafQueue, animsStarted>>
    /\ UNCHANGED <<statsVars, gridVars, appVars>>

\* The host runs a timer no earlier than its due time, and after every
\* timer set before it with a timeout no longer than its own.
TimerReady(i) ==
    /\ now >= timers[i].due
    /\ \A j \in 1..(i - 1) : timers[j].delay > timers[i].delay

\* setIsRendered(true) by timer t: nothing on an unmounted instance.
SetIsRenderedToggle(t) ==
    IF t.dead THEN isRendered ELSE [isRendered EXCEPT ![t.card] = ~@]

SetIsRendered(t) ==
    IF t.dead THEN isRendered ELSE [isRendered EXCEPT ![t.card] = TRUE]

\* The setTimeout callback: setIsRendered(true); observer.disconnect().
\* The observer is the one of the effect that set the timer.
FireTimer(i) ==
    /\ i \in DOMAIN timers
    /\ TimerReady(i)
    /\ LET t == timers[i] IN
        /\ isRendered' = SetIsRendered(t)
        /\ cardObs' = IF t.torn THEN cardObs
                      ELSE [cardObs EXCEPT ![t.card].observing = FALSE]
        /\ timerLog' = <<[card |-> t.card, torn |-> t.torn, dead |-> t.dead]>>
    /\ timers' = RemoveAt(timers, i)
    /\ frameLog' = <<>>
    /\ UNCHANGED <<now, hasIO, crashed, mounted, delay, value, displayValue,
                   numObs, rafQueue, timersSet, animsStarted, crossOrder>>
    /\ UNCHANGED <<statsVars, gridVars, appVars>>

TriggersOnAnyEntry(c, b) == value[c] # 0

\* entry.isIntersecting, and not `start === end`
Triggers(c, b) == b /\ value[c] # 0

\* ------------------------------------------------------ AnimatedNumber
\* AnimatedNumber's observer callback, handed entries[0].isIntersecting = b.
\* start = 0, end = value; `if (start === end) return` leaves the observer
\* observing.  Otherwise the first frame is requested and the observer is
\* disconnected.  A chain is the closure `animate` with its startTime and
\* end; `written` is the value it last passed to setDisplayValue (history).
\* The model starts an animation only while the frame queue has room and
\* the bounded clock can still run past its end.
IntersectNumber(c, b) ==
    /\ mounted[c]
    /\ numObs[c].observing
    /\ numObs[c].last # Entry(b)
    /\ IF Triggers(c, b)
       THEN /\ Len(rafQueue) < MaxChains
            /\ now + Duration <= MaxTime
            /\ rafQueue' = Append(rafQueue, [card |-> c, startTime |-> now,
                                             end |-> value[c], written |-> 0,
                                             torn |-> FALSE, dead |-> FALSE])
            /\ numObs' = [numObs EXCEPT ![c] = [observing |-> FALSE,
                                                last |-> Entry(b)]]
            /\ animsStarted' = [animsStarted EXCEPT ![c] = @ + 1]
       ELSE /\ numObs' = [numObs EXCEPT ![c].last = Entry(b)]
            /\ UNCHANGED <<rafQueue, animsStarted>>
    /\ frameLog' = <<>>
    /\ timerLog' = <<>>
    /\ UNCHANGED <<now, hasIO, crashed, mounted, delay, value, isRendered,
                   displayValue, cardObs, timers, timersSet, crossOrder>>
    /\ UNCHANGED <<statsVars, gridVars, appVars>>

CurrentValUnclamped(elapsedTime, end) == (elapsedTime * end) \div Duration

\* progress = Math.min(elapsedTime / duration, 1);
\* currentVal = Math.floor(progress * (end - start) + start), start = 0.
\* Exact arithmetic stands for the doubles: both are monotone in
\* elapsedTime and give end at progress 1.
CurrentVal(elapsedTime, end) ==
    IF elapsedTime >= Duration THEN end ELSE (elapsedTime * end) \div Duration

UnfinishedInclusive(elapsedTime) == elapsedTime <= Duration

\* progress < 1: animate requests another frame.
Unfinished(elapsedTime) == elapsedTime < Duration

\* setDisplayValue(v) by chain ch: nothing on an unmounted instance.
SetDisplay(disp, ch, v) == IF ch.dead THEN disp ELSE [disp EXCEPT ![ch.card] = v]

\* One call of animate(currentTime) by chain ch, on the state acc =
\* [disp, queue, log] left by the callbacks that ran before it in the frame.
Animate(ch, currentTime, acc) ==
    LET elapsedTime == currentTime - ch.startTime
        currentVal == CurrentVal(elapsedTime, ch.end)
        more == Unfinished(elapsedTime)
        sample == [card |-> ch.card, prev |-> ch.written, val |-> currentVal,
                   end |-> ch.end, torn |-> ch.torn, elapsed |-> elapsedTime,
                   resched |-> more]
    IN  IF more
        THEN [disp |-> SetDisplay(acc.disp, ch, currentVal),
              queue |-> Append(acc.queue, [ch EXCEPT !.written = currentVal]),
              log |-> Append(acc.log, sample)]
        ELSE [disp |-> SetDisplay(SetDisplay(acc.disp, ch, currentVal), ch, ch.end),
              queue |-> acc.queue,
              log |-> acc.log \o <<sample, [sample EXCEPT !.prev = currentVal,
                                                          !.val = ch.end]>>]

RECURSIVE RunCallbacks(_, _, _, _)
RunCallbacks(q, i, currentTime, acc) ==
    IF i > Len(q) THEN acc
    ELSE RunCallbacks(q, i + 1, currentTime, Animate(q[i], currentTime, acc))

\* An animation frame: the host runs the callbacks requested since the last
\* frame, in order, each with the frame's timestamp.
Frame ==
    /\ rafQueue # <<>>
    /\ LET r == RunCallbacks(rafQueue, 1, now,
                             [disp |-> displayValue, queue |-> <<>>, log |-> <<>>])
       IN  /\ displayValue' = r.disp
           /\ rafQueue' = r.queue
           /\ frameLog' = r.log
    /\ timerLog' = <<>>
    /\ UNCHANGED <<now, hasIO, crashed, mounted, delay, value, isRendered,
                   cardObs, numObs, timers, timersSet, animsStarted, crossOrder>>
    /\ UNCHANGED <<statsVars, gridVars, appVars>>

\* ---------------------------------------------------- calculateLifeStats
\* A string is the sequence of its characters.  Date.parse is modelled for
\* the date-only forms of the ECMAScript date-time string format (YYYY,
\* YYYY-MM, YYYY-MM-DD, read as UTC midnight) and for strings that are in
\* no date format at all, which it makes NaN; the inputs below stay within
\* these.  A time value is [day, ms]: whole days since 1970-01-01 UTC and the
\* milliseconds into that day, which keeps getTime() exact in 32 bits.
MsPerDay == 1000 * 60 * 60 * 24

NaN == [nan |-> TRUE]
JsNull == [null |-> TRUE]
Pending == [pending |-> TRUE]

DigitChars == <<"0", "1", "2", "3", "4", "5", "6", "7", "8", "9">>

IsDigit(ch) == \E d \in 1..10 : DigitChars[d] = ch

DigitOf(ch) == (CHOOSE d \in 1..10 : DigitChars[d] = ch) - 1

\* the number written by the digits str[from..to]
RECURSIVE NumberAt(_, _, _)
NumberAt(str, from, to) ==
    IF to < from THEN 0
    ELSE 10 * NumberAt(str, from, to - 1) + DigitOf(str[to])

\* what <input type="date"> hands over: the digits of y, m, d with dashes
TwoDigits(n) == <<DigitChars[(n \div 10) + 1], DigitChars[(n % 10) + 1]>>

IsoDate(y, m, d) ==
    TwoDigits(y \div 100) \o TwoDigits(y % 100) \o <<"-">>
        \o TwoDigits(m) \o <<"-">> \o TwoDigits(d)

IsLeap(y) == (y % 4 = 0 /\ y % 100 # 0) \/ y % 400 = 0

DaysInMonth(y, m) ==
    IF m = 2 THEN (IF IsLeap(y) THEN 29 ELSE 28)
    ELSE IF m \in {4, 6, 9, 11} THEN 30 ELSE 31

\* days from 1970-01-01 to the civil date y-m-d (proleptic Gregorian)
DaysFromCivil(y, m, d) ==
    LET yy == IF m <= 2 THEN y - 1 ELSE y
        era == yy \div 400
        yoe == yy - era * 400
        mp == IF m > 2 THEN m - 3 ELSE m + 9
        doy == (153 * mp + 2) \div 5 + d - 1
        doe == yoe * 365 + yoe \div 4 - yoe \div 100 + doy
    IN  era * 146097 + doe - 719468

\* the civil year of day number z
YearOfDay(z) ==
    LET zz == z + 719468
        era == zz \div 146097
        doe == zz - era * 146097
        yoe == (doe - doe \div 1460 + doe \div 36524 - doe \div 146096) \div 365
        doy == doe - (365 * yoe + yoe \div 4 - yoe \div 100)
        mp == (5 * doy + 2) \div 153
        m == IF mp < 10 THEN mp + 3 ELSE mp - 9
    IN  yoe + era * 400 + (IF m <= 2 THEN 1 ELSE 0)

WellFormed(str) ==
    /\ Len(str) \in {4, 7, 10}
    /\ \A i \in 1..Len(str) :
          IF i \in {5, 8} THEN str[i] = "-" ELSE IsDigit(str[i])

\* new Date(birthDateStr).getTime(): NaN for an invalid date
DateParse(str) ==
    IF ~WellFormed(str) THEN NaN
    ELSE LET y == NumberAt(str, 1, 4)
             m == IF Len(str) >= 7 THEN NumberAt(str, 6, 7) ELSE 1
             d == IF Len(str) = 10 THEN NumberAt(str, 9, 10) ELSE 1
         IN  IF m < 1 \/ m > 12 \/ d < 1 \/ d > 31 THEN NaN
             ELSE IF d > DaysInMonth(y, m) /\ ~rollsOver THEN NaN
             ELSE [day |-> DaysFromCivil(y, m, 1) + d - 1, ms |-> 0]

\* a.getTime() - b.getTime(), as [days, ms] with 0 <= ms < MsPerDay:
\* days = floor(difference / MsPerDay)
TimeDiff(a, b) ==
    IF a.ms >= b.ms
    THEN [days |-> a.day - b.day, ms |-> a.ms - b.ms]
    ELSE [days |-> a.day - b.day - 1, ms |-> a.ms - b.ms + MsPerDay]

\* getFullYear(): the year of the instant in local time
GetFullYear(t) ==
    YearOfDay(t.day + ((t.ms + tzOffset) \div MsPerDay))

\* instant t is strictly after instant u
After(t, u) == t.day > u.day \/ (t.day = u.day /\ t.ms > u.ms)

US_PRESIDENTS == <<
    [name |-> "Jimmy Carter", start |-> 1977, end |-> 1981],
    [name |-> "Ronald Reagan", start |-> 1981, end |-> 1989],
    [name |-> "George H. W. Bush", start |-> 1989, end |-> 1993],
    [name |-> "Bill Clinton", start |-> 1993, end |-> 2001],
    [name |-> "George W. Bush", start |-> 2001, end |-> 2009],
    [name |-> "Barack Obama", start |-> 2009, end |-> 2017],
    [name |-> "Donald Trump", start |-> 2017, end |-> 2021],
    [name |-> "Joe Biden", start |-> 2021, end |-> 2025] >>

IPHONE_RELEASES == <<2007, 2008, 2009, 2010, 2011, 2012, 2013, 2014, 2015,
                     2016, 2017, 2018, 2019, 2020, 2021, 2022, 2023, 2024>>

Min(a, b) == IF a <= b THEN a ELSE b

Names(ps) == [i \in DOMAIN ps |-> ps[i].name]

IsFutureInclusive(msLived) == msLived.days < 0 \/ (msLived.days = 0 /\ msLived.ms = 0)

\* msLived < 0
IsFuture(msLived) == msLived.days < 0

\* x * f for 0 <= x and 0 < f, as [k, u] with value 1000 * k + u and
\* 0 <= u < 1000: the products of a lifetime of days pass 2^31, which a
\* double holds exactly and the checker's integers do not.
WideMul(x, f) ==
    [k |-> (x \div 1000) * f + ((x % 1000) * f) \div 1000,
     u |-> ((x % 1000) * f) % 1000]

BirthYearUTC(birthDate) == YearOfDay(birthDate.day)

\* birthDate.getFullYear()
BirthYear(birthDate) == GetFullYear(birthDate)

InLifetimeInclusive(p, birthYear) ==
    p.start >= birthYear \/ (p.start < birthYear /\ p.end >= birthYear)

\* the filter on US_PRESIDENTS
InLifetime(p, birthYear) ==
    p.start >= birthYear \/ (p.start < birthYear /\ p.end > birthYear)

PeopleMetWrapped(yearsLived) == (yearsLived * (80000 \div 80)) % 80000

\* Math.min(80000, Math.floor(yearsLived * (80000 / 80)))
PeopleMet(yearsLived) == Min(80000, yearsLived * (80000 \div 80))

\* the record calculateLifeStats builds for a birth instant not after now.
\* 24 * 60 * 60 * 29.78 = 864 * 2978 and 1 / 29.53 = 100 / 2953; the doubles
\* of the source give these integers for every lifetime up to 40000 days.
LifeStats(birthDate, msLived) ==
    LET daysLived == msLived.days
        weeksLived == daysLived \div 7
        birthYear == BirthYear(birthDate)
        yearsLived == GetFullYear(clock) - birthYear
        hoursSlept == yearsLived * 365 * 8
    IN  [weeksLived |-> weeksLived,
         heartbeats |-> WideMul(daysLived * 24 * 60, 70),
         fullMoons |-> (daysLived * 100) \div 2953,
         earthRevolutions |-> yearsLived,
         kmTraveledAroundSun |-> WideMul(daysLived * 864, 2978),
         presidentsInLifetime |->
             Names(SelectSeq(US_PRESIDENTS,
                             LAMBDA p : InLifetime(p, birthYear))),
         mealsEaten |-> daysLived * 3,
         hoursSlept |-> hoursSlept,
         dreams |-> hoursSlept * 2,
         peopleMet |-> PeopleMet(yearsLived),
         iphoneModels |-> Len(SelectSeq(IPHONE_RELEASES,
                                        LAMBDA year : year >= birthYear)),
         isFuture |-> FALSE]

CalculateLifeStats(birthDateStr_) ==
    IF birthDateStr_ = <<>> THEN JsNull
    ELSE LET birthDate == DateParse(birthDateStr_) IN
         IF birthDate = NaN THEN JsNull
         ELSE LET msLived == TimeDiff(clock, birthDate) IN
              IF IsFuture(msLived) THEN [isFuture |-> TRUE]
              ELSE LifeStats(birthDate, msLived)

\* The input strings, the instants `new Date()` may read, the time zones.
InputStrings ==
    { <<>>, <<"a", "b", "c">>, <<"2", "0", "2", "4">>,
      <<"2", "0", "2", "4", "-", "1", "2">>,
      IsoDate(2024, 13, 1), IsoDate(2024, 2, 30), IsoDate(2024, 2, 29),
      IsoDate(2023, 12, 31), IsoDate(2024, 12, 30), IsoDate(2024, 12, 31),
      IsoDate(2025, 1, 1), IsoDate(2025, 1, 2),
      IsoDate(1930, 3, 1), IsoDate(1935, 4, 20), IsoDate(1944, 12, 31),
      IsoDate(1945, 1, 1), IsoDate(1976, 7, 4), IsoDate(1981, 1, 1),
      IsoDate(1989, 6, 15), IsoDate(2007, 1, 1), IsoDate(2016, 11, 8) }

Instants ==
    { [day |-> DaysFromCivil(2024, 12, 31) + k, ms |-> ms] :
        k \in 0..1, ms \in {0, 1, MsPerDay - 1} }
    \cup { [day |-> DaysFromCivil(2016, 6, 15), ms |-> 0] }

TzOffsets == {0 - 5 * 60 * 60 * 1000, 0, 2 * 60 * 60 * 1000}

\* no statistics are being computed (the components' specifications)
StatsIdle ==
    /\ birthDateStr = <<>>
    /\ clock = [day |-> DaysFromCivil(2024, 12, 31), ms |-> 0]
    /\ tzOffset = 0
    /\ rollsOver = TRUE
    /\ stats = Pending

StatsInit ==
    /\ birthDateStr \in InputStrings
    /\ clock \in Instants
    /\ tzOffset \in TzOffsets
    /\ rollsOver \in BOOLEAN
    /\ stats = Pending

\* VisualizationScreen's useMemo calls calculateLifeStats(birthDate).
Calculate ==
    /\ stats = Pending
    /\ stats' = CalculateLifeStats(birthDateStr)
    /\ UNCHANGED <<birthDateStr, clock, tzOffset, rollsOver>>
    /\ UNCHANGED <<uiVars, gridVars, appVars>>

\* The date is changed: the screen is mounted again with another string,
\* at an instant not before the last one.
Resubmit(str, t) ==
    /\ stats # Pending
    /\ TimeDiff(t, clock).days >= 0
    /\ birthDateStr' = str
    /\ clock' = t
    /\ stats' = Pending
    /\ UNCHANGED <<tzOffset, rollsOver>>
    /\ UNCHANGED <<uiVars, gridVars, appVars>>

\* ------------------------------------------------------------- LifeGrid
\* The host shows a unit whose style says opacity 1: at once if the hidden
\* style was never painted, else when the unit's transitionDelay has passed
\* since the style changed.  transitionDelay is in tenths of a millisecond.
Indices == 0..(TOTAL_WEEKS - 1)

IsLivedInclusive(i, weeksLived) == i <= weeksLived

\* const isLived = i < weeksLived
IsLived(i, weeksLived) == i < weeksLived

IsDecadeMarkerYearStart(i) ==
    LET year == i \div WEEKS_IN_YEAR IN
        (year + 1) % 10 = 0 /\ i % WEEKS_IN_YEAR = 0

\* const isDecadeMarker = ...
IsDecadeMarker(i) ==
    LET year == i \div WEEKS_IN_YEAR IN
        (year + 1) % 10 = 0 /\ i % WEEKS_IN_YEAR = WEEKS_IN_YEAR - 1

TransitionDelayReversed(i) == (TOTAL_WEEKS - 1 - i) * 2

\* transitionDelay: `${i * 0.2}ms`
TransitionDelay(i) == i * 2

\* Array.from({ length: TOTAL_WEEKS }, (_, i) => <div .../>)
MakeGrid(weeksLived, rendered) ==
    [i \in Indices |->
        [isLived |-> IsLived(i, weeksLived),
         isDecadeMarker |-> IsDecadeMarker(i),
         opacity |-> IF rendered THEN 1 ELSE 0,
         transitionDelay |-> TransitionDelay(i)]]

NoGrid == [i \in {} |-> 0]

\* the time the last unit's transition starts after the first one's, ms
RevealSpan == (TransitionDelay(TOTAL_WEEKS - 1) + 9) \div 10

GridIdle ==
    /\ gridMounted = FALSE
    /\ gridWeeksLived = 0
    /\ gridIsRendered = FALSE
    /\ gridEffect = FALSE
    /\ grid = NoGrid
    /\ revealAt = 0 - 1
    /\ shown = NoGrid

\* <LifeGrid weeksLived={w} /> is mounted: the first render, isRendered false
MountGrid(w) ==
    /\ ~gridMounted
    /\ now + RevealSpan <= MaxGridTime
    /\ gridMounted' = TRUE
    /\ gridWeeksLived' = w
    /\ gridIsRendered' = FALSE
    /\ gridEffect' = TRUE
    /\ grid' = MakeGrid(w, FALSE)
    /\ revealAt' = 0 - 1
    /\ shown' = [i \in Indices |-> FALSE]
    /\ UNCHANGED <<uiVars, statsVars, appVars>>

\* the units the host has begun to show at time t
ShownAt(t) ==
    [i \in Indices |->
        \/ shown[i]
        \/ /\ grid[i].opacity = 1
           /\ revealAt >= 0
           /\ (t - revealAt) * 10 >= grid[i].transitionDelay]

\* useEffect(() => { setIsRendered(true); }, []) and the render it causes.
\* painted: the host had painted the hidden units before the effect ran.
GridMountEffect(painted) ==
    /\ gridMounted /\ gridEffect
    /\ gridEffect' = FALSE
    /\ gridIsRendered' = TRUE
    /\ grid' = MakeGrid(gridWeeksLived, TRUE)
    /\ revealAt' = now
    /\ shown' = [i \in Indices |-> ~painted \/ TransitionDelay(i) = 0]
    /\ UNCHANGED <<gridMounted, gridWeeksLived>>
    /\ UNCHANGED <<uiVars, statsVars, appVars>>

\* the weeksLived prop changes: the memo is computed again
SetWeeksLived(w) ==
    /\ gridMounted /\ ~gridEffect
    /\ w # gridWeeksLived
    /\ gridWeeksLived' = w
    /\ grid' = MakeGrid(w, gridIsRendered)
    /\ UNCHANGED <<gridMounted, gridIsRendered, gridEffect, revealAt, shown>>
    /\ UNCHANGED <<uiVars, statsVars, appVars>>

UnmountGrid ==
    /\ gridMounted
    /\ gridMounted' = FALSE
    /\ gridWeeksLived' = 0
    /\ gridIsRendered' = FALSE
    /\ gridEffect' = FALSE
    /\ grid' = NoGrid
    /\ revealAt' = 0 - 1
    /\ shown' = NoGrid
    /\ UNCHANGED <<uiVars, statsVars, appVars>>

\* time passes; the mount effect runs before it does
GridTick(d) ==
    /\ ~gridEffect
    /\ now + d <= MaxGridTime
    /\ now' = now + d
    /\ shown' = IF gridMounted THEN ShownAt(now + d) ELSE shown
    /\ UNCHANGED <<hasIO, crashed, mounted, delay, value, isRendered,
                   displayValue, cardObs, numObs, timers, rafQueue, frameLog,
                   timerLog, timersSet, animsStarted, crossOrder>>
    /\ UNCHANGED <<gridMounted, gridWeeksLived, gridIsRendered, gridEffect,
                   grid, revealAt>>
    /\ UNCHANGED <<statsVars, appVars>>

\* ------------------------------------------------------------------ App
\* App shows DateInputScreen while its birthDate is null and
\* VisualizationScreen otherwise, which shows one of three views by what
\* calculateLifeStats returned.  The components of the full view are the
\* subject of the specifications above.
Screen ==
    IF appBirthDate = JsNull THEN "date-entry"
    ELSE IF stats = JsNull THEN "calculating"
    ELSE IF stats.isFuture THEN "future"
    ELSE "visualization"

\* the view on screen has a button whose onClick is onReset: "go back" of
\* the future view, "change date" of the full view; none in "calculating..."
ResetOffered == Screen \in {"future", "visualization"}

\* DateInputScreen's handleSubmit with the field's value str:
\* `if (birthDate) onDateSubmit(birthDate)`, App's setBirthDate, and the
\* render of VisualizationScreen with its useMemo.  A host without the date
\* control shows a text field, whose value is whatever was typed.
HandleSubmit(str) ==
    /\ appBirthDate = JsNull
    /\ str # <<>>
    /\ appBirthDate' = str
    /\ birthDateStr' = str
    /\ stats' = CalculateLifeStats(str)
    /\ UNCHANGED <<clock, tzOffset, rollsOver>>
    /\ UNCHANGED <<uiVars, gridVars>>

\* the host's clock moves on to instant t
ClockAdvance(t) ==
    /\ After(t, clock)
    /\ clock' = t
    /\ UNCHANGED <<birthDateStr, tzOffset, rollsOver, stats>>
    /\ UNCHANGED <<uiVars, gridVars, appVars>>

\* a click on the view's reset button: handleReset, setBirthDate(null)
HandleReset ==
    /\ ResetOffered
    /\ appBirthDate' = JsNull
    /\ birthDateStr' = <<>>
    /\ stats' = Pending
    /\ UNCHANGED <<clock, tzOffset, rollsOver>>
    /\ UNCHANGED <<uiVars, gridVars>>

\* ------------------------------------------------------ specifications
vars == <<uiVars, statsVars, gridVars, appVars>>

AppIdle == appBirthDate = JsNull

Init == UIInit /\ StatsIdle /\ GridIdle /\ AppIdle

\* The AnimatedNumber of one StatCard: its observer, its frame chain, its
\* value prop.  The card around it is mounted with it and gets no entries.
Next ==
    \/ \E d \in FrameSteps : Tick(d, MaxTime)
    \/ \E c \in SoloCards, v \in Values : Mount(c, v, 100)
    \/ \E c \in SoloCards : Unmount(c)
    \/ \E c \in SoloCards, v \in Values : SetValue(c, v)
    \/ \E c \in SoloCards, b \in BOOLEAN : IntersectNumber(c, b)
    \/ Frame

Spec == Init /\ [][Next]_vars

\* Frames are delivered and time advances.
LiveSpec == Spec /\ WF_vars(Frame) /\ WF_vars(\E d \in FrameSteps : Tick(d, MaxTime))

\* One StatCard: its observer, its timers, its delay prop.  The
\* AnimatedNumber in it is mounted with it and gets no entries.
CardNext ==
    \/ \E d \in TimerSteps : Tick(d, MaxTimerTime)
    \/ \E c \in SoloCards, d \in Delays : Mount(c, 0, d)
    \/ \E c \in SoloCards : Unmount(c)
    \/ \E c \in SoloCards, d \in Delays : SetDelay(c, d)
    \/ \E c \in SoloCards, b \in BOOLEAN : IntersectCard(c, b)
    \/ \E i \in 1..MaxTimers : FireTimer(i)

SpecCard == Init /\ [][CardNext]_vars

\* The StatCards of a VisualizationScreen: each delay is the literal of its
\* JSX element and never changes.
CardsNext ==
    \/ \E d \in TimerSteps : Tick(d, MaxTimerTime)
    \/ \E c \in Cards, d \in Delays : Mount(c, 0, d)
    \/ \E c \in Cards : Unmount(c)
    \/ \E c \in Cards, b \in BOOLEAN : IntersectCard(c, b)
    \/ \E i \in 1..MaxTimers : FireTimer(i)

SpecCards == Init /\ [][CardsNext]_vars

\* One StatCard with its AnimatedNumber, both observers delivering entries:
\* the card's reveal timer and the counter's frame chain side by side.
BothNext ==
    \/ \E d \in TimerSteps : Tick(d, MaxTimerTime)
    \/ \E c \in SoloCards : Mount(c, HighValue, 100)
    \/ \E c \in SoloCards : Unmount(c)
    \/ \E c \in SoloCards, b \in BOOLEAN : IntersectCard(c, b)
    \/ \E c \in SoloCards, b \in BOOLEAN : IntersectNumber(c, b)
    \/ \E i \in 1..MaxTimers : FireTimer(i)
    \/ Frame

SpecBoth == Init /\ [][BothNext]_vars

\* calculateLifeStats on a string at an instant.
StatsNext ==
    \/ Calculate
    \/ \E str \in InputStrings, t \in Instants : Resubmit(str, t)

InitStats ==
    /\ UIInit
    /\ hasIO = TRUE
    /\ StatsInit
    /\ GridIdle
    /\ AppIdle

SpecStats == InitStats /\ [][StatsNext]_vars

\* The App's screens: submitting a date, going back.
AppNext ==
    \/ \E str \in InputStrings : HandleSubmit(str)
    \/ \E t \in Instants : ClockAdvance(t)
    \/ HandleReset

InitApp ==
    /\ UIInit
    /\ hasIO = TRUE
    /\ GridIdle
    /\ AppIdle
    /\ birthDateStr = <<>>
    /\ clock \in Instants
    /\ tzOffset \in TzOffsets
    /\ rollsOver \in BOOLEAN
    /\ stats = Pending

SpecApp == InitApp /\ [][AppNext]_vars

\* One LifeGrid: mounting, its effect, prop changes, the host's clock.
GridNext ==
    \/ \E w \in GridWeeks : MountGrid(w)
    \/ \E painted \in BOOLEAN : GridMountEffect(painted)
    \/ \E w \in GridWeeks : SetWeeksLived(w)
    \/ UnmountGrid
    \/ \E d \in GridSteps : GridTick(d)

InitGrid ==
    /\ Init
    /\ hasIO = TRUE

SpecGrid == InitGrid /\ [][GridNext]_vars

\* The effect runs and time advances.
LiveGrid ==
    /\ SpecGrid
    /\ WF_vars(\E painted \in BOOLEAN : GridMountEffect(painted))
    /\ WF_vars(\E d \in GridSteps : GridTick(d))

\* ------------------------------------------------------------- claims
\* An animation of card c's current AnimatedNumber effect is running.
Animating(c) ==
    \E i \in DOMAIN rafQueue : rafQueue[i].card = c /\ ~rafQueue[i].torn

\* Card a's element was reported visible before card b's.
CrossedBefore(a, b) ==
    \E i, j \in DOMAIN crossOrder :
        i < j /\ crossOrder[i] = a /\ crossOrder[j] = b

\* C1: after an AnimatedNumber's effect is torn down (unmount, or a new
\* value), none of its animate callbacks runs a sample: no value is written
\* and no further frame is requested by the torn-down effect.
C1_NoSampleAfterTeardown ==
    \A i \in DOMAIN frameLog : ~frameLog[i].torn

\* C2: per attachment, the StatCard's observer sets at most one timer and
\* the AnimatedNumber's observer starts at most one animation, whatever
\* entries arrive.
C2_ActivatesAtMostOnce ==
    \A c \in Cards : timersSet[c] <= 1 /\ animsStarted[c] <= 1

\* C3: after a StatCard's effect is torn down (unmount, or a new delay), no
\* timer callback set by that effect runs.
C3_NoTimerAfterTeardown ==
    \A i \in DOMAIN timerLog : ~timerLog[i].torn

\* C4: every value one run of animate writes, for a target end > 0, is in
\* 0..end and not below the value the run wrote before it.
C4_WritesMonotoneInRange ==
    \A i \in DOMAIN frameLog :
        LET w == frameLog[i] IN
            w.end > 0 => /\ 0 <= w.val
                         /\ w.val <= w.end
                         /\ w.prev <= w.val

\* a run has written 1 and then 3 on its way to HighValue
C4_Witness ==
    \E i \in DOMAIN frameLog :
        /\ frameLog[i].prev > 0
        /\ frameLog[i].val > frameLog[i].prev
        /\ frameLog[i].val < frameLog[i].end

\* C5: a triggered counter with target T > 0 that stays mounted with that
\* value ends its animation showing T; a sample requests another frame
\* exactly when its progress is below 1; once the animation has ended the
\* display is T.
C5_AnimationTerminates ==
    /\ \A c \in SoloCards : \A T \in Values \ {0} :
          (Animating(c) /\ value[c] = T)
              ~> (\/ ~Animating(c) /\ displayValue[c] = T
                  \/ ~mounted[c]
                  \/ value[c] # T)
    /\ [](\A i \in DOMAIN frameLog :
              frameLog[i].resched <=> (frameLog[i].elapsed < Duration))
    /\ [](\A c \in SoloCards :
              (mounted[c] /\ value[c] > 0 /\ numObs[c].last = "in"
                 /\ ~numObs[c].observing /\ ~Animating(c))
              => displayValue[c] = value[c])

\* the animation to HighValue has just run its last sample
C5_Witness ==
    /\ mounted["A"] /\ value["A"] = HighValue /\ displayValue["A"] = HighValue
    /\ rafQueue = <<>>
    /\ frameLog # <<>>
    /\ ~frameLog[Len(frameLog)].torn

\* C6: a mounted StatCard's isRendered, once TRUE, stays TRUE in every step
\* that leaves the card mounted.
C6_RevealNeverCleared ==
    [][\A c \in Cards :
          (mounted[c] /\ isRendered[c] /\ mounted'[c]) => isRendered'[c]]_vars

\* a revealed card whose observer (attached again after a delay change, or
\* not yet disconnected) has reported it out of view
C6_Witness ==
    /\ mounted["A"] /\ isRendered["A"]
    /\ cardObs["A"].observing /\ cardObs["A"].last = "out"

\* C7 as claimed: if a's element was reported visible before b's, b is not
\* revealed before a.
C7_RevealFollowsScrollOrder ==
    \A a, b \in Cards :
        (CrossedBefore(a, b) /\ isRendered[b]) => isRendered[a]

\* C7 as amended: the same for cards whose delays satisfy delay[a] <= delay[b].
C7_RevealFollowsScrollOrderUpToDelay ==
    \A a, b \in Cards :
        (CrossedBefore(a, b) /\ delay[a] <= delay[b] /\ isRendered[b])
            => isRendered[a]

\* B was seen first and A second, B's delay is no longer than A's, both revealed
C7_Witness ==
    /\ crossOrder = <<"B", "A">>
    /\ delay["B"] <= delay["A"]
    /\ isRendered["A"] /\ isRendered["B"]

\* C8: without IntersectionObserver nothing fails, and a mounted card is
\* revealed with its counter at its target.
C8_RevealsWithoutObserver ==
    ~hasIO => /\ ~crashed
              /\ \A c \in Cards :
                    mounted[c] => isRendered[c] /\ displayValue[c] = value[c]

\* C9: once the observer of a counter whose value is 0 has handled a visible
\* entry, the display is 0 and that effect has no frame requested.
C9_ZeroTargetShowsZero ==
    \A c \in Cards :
        (mounted[c] /\ value[c] = 0 /\ numObs[c].last = "in")
            => displayValue[c] = 0 /\ ~Animating(c)

FullFields ==
    {"weeksLived", "heartbeats", "fullMoons", "earthRevolutions",
     "kmTraveledAroundSun", "presidentsInLifetime", "mealsEaten", "hoursSlept",
     "dreams", "peopleMet", "iphoneModels", "isFuture"}

\* C10: calculateLifeStats returns null for an empty or unparseable string,
\* the record with the single field isFuture = TRUE for a birth instant
\* strictly after now, and otherwise (birth at or before now) a record with
\* isFuture = FALSE and every metric field.
C10_ThreeOutcomes ==
    stats # Pending =>
        LET t == DateParse(birthDateStr) IN
            IF birthDateStr = <<>> \/ t = NaN
            THEN stats = JsNull
            ELSE IF After(t, clock)
            THEN stats = [isFuture |-> TRUE]
            ELSE DOMAIN stats = FullFields /\ stats.isFuture = FALSE

\* a birth instant exactly at now got the full record
C10_Witness ==
    /\ stats # Pending
    /\ DateParse(birthDateStr) = clock
    /\ DOMAIN stats = FullFields

\* a product kept as thousands and units is a non-negative integer
WideNat(w) == w.k \in Nat /\ w.u \in 0..999

\* C11: for a birth instant not after now, weeksLived, heartbeats,
\* fullMoons, kmTraveledAroundSun, mealsEaten, hoursSlept, dreams, peopleMet,
\* iphoneModels and earthRevolutions are integers >= 0; yearsLived, the
\* current local year minus the birth's local year, is not negative.
C11_FieldsNonNegative ==
    DOMAIN stats = FullFields =>
        /\ stats.weeksLived \in Nat
        /\ WideNat(stats.heartbeats)
        /\ stats.fullMoons \in Nat
        /\ WideNat(stats.kmTraveledAroundSun)
        /\ stats.mealsEaten \in Nat
        /\ stats.hoursSlept \in Nat
        /\ stats.dreams \in Nat
        /\ stats.peopleMet \in Nat
        /\ stats.iphoneModels \in Nat
        /\ stats.earthRevolutions \in Nat
        /\ stats.earthRevolutions
              = GetFullYear(clock) - GetFullYear(DateParse(birthDateStr))

\* a full record for a birth on 1 January UTC read west of Greenwich, where
\* both local years are still the year before
C11_Witness ==
    /\ DOMAIN stats = FullFields
    /\ YearOfDay(DateParse(birthDateStr).day) > GetFullYear(clock)
    /\ stats.earthRevolutions = 0

\* C12 as claimed: presidentsInLifetime lists, in table order, exactly
\* the entries whose term [start, end] overlaps [birthYear, current year].
C12_ExactlyOverlapping ==
    DOMAIN stats = FullFields =>
        LET birthYear == GetFullYear(DateParse(birthDateStr))
            currentYear == GetFullYear(clock)
        IN  stats.presidentsInLifetime
                = Names(SelectSeq(US_PRESIDENTS,
                        LAMBDA p : p.start <= currentYear /\ p.end >= birthYear))

\* C12 as amended: presidentsInLifetime lists, in table order, exactly the
\* entries whose term ends after the birth year, whatever the current year.
C12_ExactlyEndingAfterBirthYear ==
    DOMAIN stats = FullFields =>
        LET birthYear == GetFullYear(DateParse(birthDateStr))
        IN  stats.presidentsInLifetime
                = Names(SelectSeq(US_PRESIDENTS, LAMBDA p : p.end > birthYear))

\* born in 1981, the year the first term of the table ends: the list
\* starts with the second entry
C12_Witness ==
    /\ DOMAIN stats = FullFields
    /\ GetFullYear(DateParse(birthDateStr)) = US_PRESIDENTS[1].end
    /\ stats.presidentsInLifetime # <<>>
    /\ stats.presidentsInLifetime[1] = US_PRESIDENTS[2].name

\* C15: peopleMet does not decrease as yearsLived grows, is never above
\* 80000, and is 80000 from 80 years on.
C15_PeopleMetMonotoneCapped ==
    DOMAIN stats = FullFields =>
        LET yearsLived == stats.earthRevolutions IN
            /\ stats.peopleMet = PeopleMet(yearsLived)
            /\ stats.peopleMet <= 80000
            /\ yearsLived >= 80 => stats.peopleMet = 80000
            /\ \A a, b \in 0..yearsLived :
                  a <= b => PeopleMet(a) <= PeopleMet(b)

\* a life of more than 80 years, at the cap
C15_Witness ==
    /\ DOMAIN stats = FullFields
    /\ stats.earthRevolutions > 80
    /\ stats.peopleMet = 80000

\* C13: for every weeksLived >= 0, also above TOTAL_WEEKS, the grid has
\* exactly TOTAL_WEEKS = 4680 units, unit i is lived exactly if
\* i < weeksLived, and min(weeksLived, 4680) units are lived.
C13_GridLivedPrefix ==
    gridMounted =>
        /\ DOMAIN grid = 0..4679
        /\ Cardinality(DOMAIN grid) = TOTAL_WEEKS
        /\ \A i \in DOMAIN grid : grid[i].isLived <=> i < gridWeeksLived
        /\ Cardinality({i \in DOMAIN grid : grid[i].isLived})
              = Min(gridWeeksLived, 4680)

\* a grid for more weeks than it has units: every unit is lived
C13_Witness ==
    /\ gridMounted
    /\ gridWeeksLived > TOTAL_WEEKS
    /\ \A i \in DOMAIN grid : grid[i].isLived

\* C14: whatever weeksLived is, the units marked as decade boundaries are
\* the nine units 520 * k - 1, k = 1..9: 519, 1039, ..., 4679.
C14_DecadeMarkers ==
    gridMounted =>
        /\ {i \in DOMAIN grid : grid[i].isDecadeMarker}
              = {520 * k - 1 : k \in 1..9}
        /\ Cardinality({i \in DOMAIN grid : grid[i].isDecadeMarker}) = 9

\* a grid whose last marked unit, 4679, is not lived and whose first, 519,
\* is
C14_Witness ==
    /\ gridMounted
    /\ grid[519].isDecadeMarker /\ grid[519].isLived
    /\ grid[4679].isDecadeMarker /\ ~grid[4679].isLived

\* every unit of the grid is shown
AllShown == \A i \in DOMAIN shown : shown[i]

\* C16: a mounted LifeGrid starts with every unit hidden; with no
\* visibility notification every unit comes to be shown; a unit is never
\* shown while a unit of lower index is hidden; and a shown unit stays shown
\* in every step that leaves the grid mounted, a change of weeksLived
\* included.
C16_GridRevealsInOrder ==
    /\ [](gridMounted /\ ~gridIsRendered => \A i \in DOMAIN shown : ~shown[i])
    /\ gridMounted ~> (AllShown \/ ~gridMounted)
    /\ [](gridMounted =>
            \A i \in 1..(TOTAL_WEEKS - 1) : shown[i] => shown[i - 1])
    /\ [][gridMounted /\ gridMounted' =>
            \A i \in DOMAIN shown : shown[i] => shown'[i]]_vars

\* 250 ms into the reveal, after the hidden units were painted: the units up
\* to 1250 are shown, the others, not lived, are not yet
C16_Witness ==
    /\ gridMounted /\ gridIsRendered
    /\ gridWeeksLived # 0
    /\ shown[1250] /\ ~shown[1251]
    /\ ~grid[1251].isLived

\* C17: an AnimatedNumber instance never has more than one chain of frame
\* callbacks pending, so samples of an earlier animation cannot interleave
\* with those of a later one.
C17_OneChainPerInstance ==
    \A c \in Cards :
        Cardinality({i \in DOMAIN rafQueue :
                        rafQueue[i].card = c /\ ~rafQueue[i].dead}) <= 1

\* C18 as claimed: whenever the AnimatedNumber of a mounted StatCard has
\* requested its first frame, the card's isRendered is already TRUE.
C18_CounterAfterReveal ==
    \A c \in Cards :
        (mounted[c] /\ animsStarted[c] >= 1) => isRendered[c]

\* C18 as amended: whenever the AnimatedNumber of a mounted StatCard has
\* requested its first frame, its own observer has delivered a visible
\* entry and is disconnected.
C18_CounterAfterOwnTrigger ==
    \A c \in Cards :
        (mounted[c] /\ animsStarted[c] >= 1)
            => numObs[c].last = "in" /\ ~numObs[c].observing

\* the card has been seen and waits for its timer, hidden, while its counter
\* has already written a sample
C18_Witness ==
    /\ mounted["A"] /\ animsStarted["A"] = 1
    /\ ~isRendered["A"]
    /\ cardObs["A"].last = "in" /\ timers # <<>>
    /\ displayValue["A"] > 0

\* C19: on every screen other than date entry the user has an enabled
\* action that leads back to date entry with birthDate = null.
C19_CanAlwaysGoBack ==
    Screen # "date-entry" => ENABLED HandleReset

=============================================================================
